---- MODULE Spec2Model ----
(***************************************************************************)
(* Model of onyxconfig_tool.py: the MMKV-backed application records, the   *)
(* enable/disable logic of HandwritingOptimizer and the command dispatch   *)
(* of main().                                                              *)
(*                                                                         *)
(* Python values.  A dict is a function whose domain is its set of keys    *)
(* (the insertion order of a dict, which json.loads and json.dumps both    *)
(* keep, is not represented).  An Optional value is a sequence of length   *)
(* 0 (None) or 1.  A stored string is a record that keeps what json.loads  *)
(* reads from it (kind, doc) apart from how it is laid out (layout).       *)
(***************************************************************************)
EXTENDS Naturals, Sequences, FiniteSets, TLC

VARIABLES db, db0, targeted, last, nops

vars == <<db, db0, targeted, last, nops>>

\* Number of command invocations explored from an initial store.
MaxOps == 2

-----------------------------------------------------------------------------
(* Python values *)

None == <<>>

Some(v) == <<v>>

EmptyDict == [k \in {} |-> TRUE]

\* d[k] = v
Put(d, k, v) == [j \in DOMAIN d \cup {k} |-> IF j = k THEN v ELSE d[j]]

\* del d[k]
Del(d, k) == [j \in DOMAIN d \ {k} |-> d[j]]

\* d.get(k, default) for a dict-valued field
GetDict(d, k) == IF k \in DOMAIN d THEN d[k] ELSE EmptyDict

\* truth value of d.get(k) for a boolean field
TruthyBool(d, k) == k \in DOMAIN d /\ d[k] = TRUE

\* truth value of d.get(k) for a string field
TruthyStr(d, k) == k \in DOMAIN d /\ d[k] # ""

-----------------------------------------------------------------------------
(* The preset catalog *)

KNOWN_APPS ==
  [p \in {"com.xodo.pdf.reader",
          "com.steadfastinnovation.android.projectpapyrus",
          "md.obsidian",
          "com.penly.penly",
          "jp.ne.ibis.ibispaintx",
          "com.medibang.android.paint.tablet",
          "org.joplin.react",
          "com.easyinnovation.notebook.gfree",
          "com.microsoft.office.onenote"} |->
     CASE p = "com.xodo.pdf.reader" ->
            [name |-> "Xodo PDF Reader",
             drawViewKey |-> "com.pdftron.pdf.PDFViewCtrl",
             commonActivities |->
               <<"com.xodo.presentation.activity.TabletReaderActivity",
                 "com.xodo.presentation.activity.ReaderActivity">>]
       [] p = "com.steadfastinnovation.android.projectpapyrus" ->
            [name |-> "Squid",
             drawViewKey |->
               "com.steadfastinnovation.android.projectpapyrus.ui.widget.PageViewContainer",
             commonActivities |->
               <<"com.steadfastinnovation.android.projectpapyrus.ui.MainActivity">>]
       [] p = "md.obsidian" ->
            [name |-> "Obsidian (Excalidraw/Ink)",
             drawViewKey |-> "com.getcapacitor.CapacitorWebView",
             commonActivities |-> <<"md.obsidian.MainActivity">>]
       [] p = "com.penly.penly" ->
            [name |-> "Penly",
             drawViewKey |-> "com.penly.penly.editor.views.EditorView",
             commonActivities |-> <<"com.penly.penly.editor.EditorActivity">>]
       [] p = "jp.ne.ibis.ibispaintx" ->
            [name |-> "Ibis Paint X",
             drawViewKey |-> "jp.ne.ibis.ibispaintx.app.glwtk.IbisPaintView",
             commonActivities |-> <<"jp.ne.ibis.ibispaintx.app.MainActivity">>]
       [] p = "com.medibang.android.paint.tablet" ->
            [name |-> "MediBang Paint",
             drawViewKey |-> "com.medibang.android.paint.tablet.ui.widget.CanvasView",
             commonActivities |-> <<"com.medibang.android.paint.tablet.MainActivity">>]
       [] p = "org.joplin.react" ->
            [name |-> "Joplin (Drawing plugin)",
             drawViewKey |-> "com.reactnativecommunity.webview.RNCWebView",
             commonActivities |-> <<"org.joplin.react.MainActivity">>]
       [] p = "com.easyinnovation.notebook.gfree" ->
            [name |-> "DrawNote",
             drawViewKey |-> "com.dragonnest.app.view.DrawingContainerView",
             commonActivities |-> <<"com.easyinnovation.notebook.gfree.MainActivity">>]
       [] p = "com.microsoft.office.onenote" ->
            [name |-> "Microsoft OneNote",
             drawViewKey |-> "com.microsoft.office.onenote.drawing.CanvasView",
             commonActivities |->
               <<"com.microsoft.office.onenote.ui.main.MainActivity">>]]

-----------------------------------------------------------------------------
(* Stored strings and the JSON codec *)

\* A string that json.loads parses to the object doc.  layout tells the
\* compact text json.dumps(doc, separators=(',', ':')) writes from any other
\* text of the same object (spaces after separators, as an external writer
\* may leave them).
JsonText(layout, doc) == [kind |-> "json", layout |-> layout, doc |-> doc]

\* A string that json.loads rejects.
NotJson == [kind |-> "text", layout |-> "not json", doc |-> EmptyDict]

\* json.loads(s): ok is FALSE when it raises.
json_loads(s) ==
  IF s.kind = "json" THEN [ok |-> TRUE, value |-> s.doc]
                     ELSE [ok |-> FALSE, value |-> EmptyDict]

\* json.dumps(config, separators=(',', ':'))
json_dumps(config) == JsonText("compact", config)

-----------------------------------------------------------------------------
(* OnyxMMKVHandler *)

\* f"eac_app_{package_name}": a key is the pair of its prefix and the rest.
AppKey(package_name) == <<"eac_app_", package_name>>

\* get_app_config: None when getString finds nothing to parse or json.loads
\* raises.
get_app_config(d, package_name) ==
  LET key == AppKey(package_name)
  IN  IF key \notin DOMAIN d THEN None
      ELSE LET parsed == json_loads(d[key])
           IN  IF parsed.ok THEN Some(parsed.value) ELSE None

\* What the store answers to set(key, value): it stores the value, returns
\* False without storing, or raises without storing.
SetOutcomes == {"stored", "refused", "raised"}

\* set_app_config: the store after the call and the value returned.
set_app_config(d, package_name, config, outcome) ==
  LET key == AppKey(package_name)
      config_str == json_dumps(config)
  IN  CASE outcome = "stored"  -> [db |-> Put(d, key, config_str), ret |-> TRUE]
        [] outcome = "refused" -> [db |-> d, ret |-> TRUE]
        [] outcome = "raised"  -> [db |-> d, ret |-> FALSE]

\* The package names the model uses, in the order sorted() gives them.
LexOrder == <<"md.obsidian", "x.y">>

\* sorted(apps) for a set of package names of the model
sorted(apps) == SelectSeq(LexOrder, LAMBDA p : p \in apps)

\* list_all_apps: the keys that start with 'eac_app_', prefix removed, sorted.
list_all_apps(d) ==
  sorted({key[2] : key \in {k \in DOMAIN d : k[1] = "eac_app_"}})

\* The test of lines 176-177, 298-299 and 535-536 on one activity's entry:
\* note_config = activity_config.get('noteConfig', {});
\* note_config.get('enable') and note_config.get('drawViewKey')
PassesActiveTest(activity_config) ==
  LET note_config == GetDict(activity_config, "noteConfig")
  IN  TruthyBool(note_config, "enable") /\ TruthyStr(note_config, "drawViewKey")

\* activities_with_drawing with the test of noteConfig.enable alone.
activities_with_drawing_ignores_key(activity_map) ==
  {[activity |-> a,
    drawViewKey |-> GetDict(activity_map[a], "noteConfig").drawViewKey] :
     a \in {n \in DOMAIN activity_map :
              /\ TruthyBool(GetDict(activity_map[n], "noteConfig"), "enable")
              /\ "drawViewKey" \in DOMAIN GetDict(activity_map[n], "noteConfig")}}

\* activities_with_drawing of list_optimized_apps for one parsed config
activities_with_drawing(activity_map) ==
  {[activity |-> a, drawViewKey |-> activity_map[a].noteConfig.drawViewKey] :
     a \in {n \in DOMAIN activity_map : PassesActiveTest(activity_map[n])}}

\* Whether list_optimized_apps keeps the application: config and
\* config.get('activityConfigMap') are truthy and some activity passes.
IsOptimized(d, app) ==
  LET config == get_app_config(d, app)
  IN  /\ config # None
      /\ DOMAIN config[1] # {}
      /\ DOMAIN GetDict(config[1], "activityConfigMap") # {}
      /\ activities_with_drawing(config[1].activityConfigMap) # {}

\* list_optimized_apps: (app, activities) for the applications kept, in the
\* order of list_all_apps.
list_optimized_apps(d) ==
  LET kept == SelectSeq(list_all_apps(d), LAMBDA app : IsOptimized(d, app))
  IN  [i \in 1..Len(kept) |->
         <<kept[i],
           activities_with_drawing(get_app_config(d, kept[i])[1].activityConfigMap)>>]

-----------------------------------------------------------------------------
(* HandwritingOptimizer *)

create_activity_config(draw_view_key, activity_name) ==
  [clsName |-> activity_name,
   disableScrollAnim |-> FALSE,
   displayConfig |->
     [bwMode |-> 0, cfaColorBrightness |-> 0, cfaColorSaturation |-> 0,
      cfaColorSaturationMin |-> 60, contrast |-> 30, ditherThreshold |-> 128,
      enable |-> TRUE, enhance |-> TRUE, monoLevel |-> 10],
   enable |-> TRUE,
   noteConfig |->
     [compatibleVersionCode |-> 0,
      drawViewKey |-> draw_view_key,
      enable |-> TRUE,
      globalStrokeStyle |->
        [enable |-> TRUE, strokeColor |-> 0 - 16777216, strokeExtraArgs |-> <<>>,
         strokeParams |-> <<>>, strokeStyle |-> 0, strokeWidth |-> 3],
      repaintLatency |-> 500,
      styleMap |-> EmptyDict,
      supportNoteConfig |-> TRUE],
   paintConfig |->
     [antiAlisingType |-> 0, ditherBitmap |-> FALSE, enable |-> TRUE,
      fillBrightness |-> 0, fillContrast |-> 0, fillEAC |-> FALSE,
      iconBrightness |-> 0, iconContrast |-> 0, iconEAC |-> FALSE,
      iconThreshold |-> 0, imgEAC |-> TRUE, imgGamma |-> 60, quantBits |-> 3,
      textBold |-> FALSE, textEACType |-> 0],
   refreshConfig |->
     [animationDuration |-> 50, antiFlicker |-> 10, enable |-> TRUE,
      gcInterval |-> 20, supportRegal |-> FALSE, turbo |-> 2, updateMode |-> 2,
      useGCForNewSurface |-> FALSE]]

\* The result of a core operation that returns before any write.
NoWrite(d, ret) == [db |-> d, ret |-> ret, trace |-> <<"locate">>, set |-> "none"]

\* The result of a core operation that ends in handler.set_app_config.
Persist(d, package_name, config, outcome) ==
  LET w == set_app_config(d, package_name, config, outcome)
  IN  [db |-> w.db, ret |-> w.ret, trace |-> <<"locate", "persist">>,
       set |-> outcome]

\* enable_handwriting with a stand-in key written for an empty draw_view_key.
enable_handwriting_default_key(d, package_name, draw_view_key, activity_name, outcome) ==
  LET config == get_app_config(d, package_name)
  IN  IF config = None \/ DOMAIN config[1] = {}
      THEN NoWrite(d, FALSE)
      ELSE LET activity_map == GetDict(config[1], "activityConfigMap")
               activity_config ==
                 create_activity_config(
                   IF draw_view_key = "" THEN "android.view.View" ELSE draw_view_key,
                   activity_name)
           IN  Persist(d, package_name,
                       Put(config[1], "activityConfigMap",
                           Put(activity_map, activity_name, activity_config)),
                       outcome)

\* enable_handwriting with the entry written only when the activity has none
\* (setdefault in place of the assignment of line 268).
enable_handwriting_keeps_existing(d, package_name, draw_view_key, activity_name, outcome) ==
  LET config == get_app_config(d, package_name)
  IN  IF config = None \/ DOMAIN config[1] = {}
      THEN NoWrite(d, FALSE)
      ELSE LET activity_map == GetDict(config[1], "activityConfigMap")
               activity_config ==
                 IF activity_name \in DOMAIN activity_map
                 THEN activity_map[activity_name]
                 ELSE create_activity_config(draw_view_key, activity_name)
           IN  Persist(d, package_name,
                       Put(config[1], "activityConfigMap",
                           Put(activity_map, activity_name, activity_config)),
                       outcome)

\* enable_handwriting writing a record rebuilt from the activity map alone.
enable_handwriting_drops_fields(d, package_name, draw_view_key, activity_name, outcome) ==
  LET config == get_app_config(d, package_name)
  IN  IF config = None \/ DOMAIN config[1] = {}
      THEN NoWrite(d, FALSE)
      ELSE LET activity_map == GetDict(config[1], "activityConfigMap")
               activity_config ==
                 create_activity_config(draw_view_key, activity_name)
           IN  Persist(d, package_name,
                       [activityConfigMap |->
                          Put(activity_map, activity_name, activity_config)],
                       outcome)

\* enable_handwriting: the store afterwards, the value returned, the store
\* calls made and the store's answer to the write.
enable_handwriting(d, package_name, draw_view_key, activity_name, outcome) ==
  LET config == get_app_config(d, package_name)
  IN  IF config = None \/ DOMAIN config[1] = {}
      THEN NoWrite(d, FALSE)
      ELSE LET config1 ==
                 IF "activityConfigMap" \notin DOMAIN config[1]
                 THEN Put(config[1], "activityConfigMap", EmptyDict)
                 ELSE config[1]
               activity_config ==
                 create_activity_config(draw_view_key, activity_name)
               config2 ==
                 Put(config1, "activityConfigMap",
                     Put(config1.activityConfigMap, activity_name, activity_config))
           IN  Persist(d, package_name, config2, outcome)

\* to_remove with the test of noteConfig.enable alone.
to_remove_ignores_key(activity_map) ==
  {act_name \in DOMAIN activity_map :
     TruthyBool(GetDict(activity_map[act_name], "noteConfig"), "enable")}

\* to_remove of disable_handwriting
to_remove(activity_map) ==
  {act_name \in DOMAIN activity_map : PassesActiveTest(activity_map[act_name])}

\* disable_handwriting with the write made before the missing activity is
\* reported.
disable_handwriting_persists_on_missing(d, package_name, activity_name, outcome) ==
  LET config == get_app_config(d, package_name)
  IN  IF config = None \/ DOMAIN config[1] = {}
      THEN NoWrite(d, FALSE)
      ELSE LET activity_map == GetDict(config[1], "activityConfigMap")
           IN  IF DOMAIN activity_map = {}
               THEN NoWrite(d, TRUE)
               ELSE LET removed ==
                          IF activity_name # None /\ activity_name[1] # ""
                          THEN Del(activity_map, activity_name[1])
                          ELSE [a \in DOMAIN activity_map \ to_remove(activity_map)
                                  |-> activity_map[a]]
                        w == Persist(d, package_name,
                                     Put(config[1], "activityConfigMap", removed),
                                     outcome)
                    IN  IF /\ activity_name # None /\ activity_name[1] # ""
                           /\ activity_name[1] \notin DOMAIN activity_map
                        THEN [w EXCEPT !.ret = FALSE]
                        ELSE w

\* disable_handwriting; activity_name is None or Some(string).
disable_handwriting(d, package_name, activity_name, outcome) ==
  LET config == get_app_config(d, package_name)
  IN  IF config = None \/ DOMAIN config[1] = {}
      THEN NoWrite(d, FALSE)
      ELSE LET activity_map == GetDict(config[1], "activityConfigMap")
           IN  IF DOMAIN activity_map = {}
               THEN NoWrite(d, TRUE)
               ELSE IF activity_name # None /\ activity_name[1] # ""
               THEN IF activity_name[1] \in DOMAIN activity_map
                    THEN Persist(d, package_name,
                                 Put(config[1], "activityConfigMap",
                                     Del(activity_map, activity_name[1])),
                                 outcome)
                    ELSE NoWrite(d, FALSE)
               ELSE Persist(d, package_name,
                            Put(config[1], "activityConfigMap",
                                [a \in DOMAIN activity_map \ to_remove(activity_map)
                                   |-> activity_map[a]]),
                            outcome)

-----------------------------------------------------------------------------
(* main(): one invocation of the command line *)

\* What the file system and the store do during one invocation.  files: which
\* of the database file and its .crc file exist; copy: which shutil.copy2 of
\* backup_database fails; set: the store's answer to a write.  A later fault is
\* never observed after an earlier one, so one fault per invocation gives
\* every run there is.
Envs ==
  {[files |-> f, copy |-> "ok", set |-> "stored"] : f \in {"db_missing", "crc_missing"}}
  \cup {[files |-> "both", copy |-> c, set |-> "stored"] : c \in {"db_fails", "crc_fails"}}
  \cup {[files |-> "both", copy |-> "ok", set |-> o] : o \in SetOutcomes}

\* OnyxMMKVHandler.__init__ returns (and MMKV is opened) only when both
\* files exist; it raises FileNotFoundError otherwise.
HandlerOpens(env) == env.files = "both"

\* backup_database: the copies made, and whether it returned.
backup_database(env) ==
  CASE env.copy = "db_fails"  -> [ok |-> FALSE, trace |-> <<>>]
    [] env.copy = "crc_fails" -> [ok |-> FALSE, trace |-> <<"copy_db">>]
    [] env.copy = "ok"        -> [ok |-> TRUE, trace |-> <<"copy_db", "copy_crc">>]

\* args.backup: action='store_true' with default=True is True on every run.
args_backup == TRUE

\* if args.backup: handler.backup_database()
backup_if_requested(env) ==
  IF args_backup THEN backup_database(env) ELSE [ok |-> TRUE, trace |-> <<>>]

\* The end of an invocation: the store, the exit status, the value the core
\* operation returned (None when it was not called or did not return), the
\* exception that ended the run, the handler and store calls in order, the
\* store's answer to the write, the call of enable_handwriting or
\* disable_handwriting made (None when there was none), and what was printed.
Outcome(d, exit, ret, error, trace, set, msg) ==
  [db |-> d, exit |-> exit, ret |-> ret, error |-> error, trace |-> trace,
   set |-> set, core |-> None, msg |-> msg, lines |-> {}, apps |-> <<>>,
   optimized |-> <<>>]

\* The arguments of a call of enable_handwriting or disable_handwriting;
\* activity is None or Some(string).
CoreCall(op, app, draw_view, activity) ==
  Some([op |-> op, app |-> app, draw_view |-> draw_view, activity |-> activity])

\* except Exception: print, sys.exit(1)
Crash(d, error, trace) == Outcome(d, 1, None, error, trace, "none", "error")

\* The enable, quick and test commands with the backup made after the core
\* operation.
enable_then_backup(d, app, draw_view, activity, env) ==
  LET r == enable_handwriting(d, app, draw_view, activity, env.set)
      b == backup_if_requested(env)
  IN  IF ~b.ok THEN [Crash(r.db, "OSError", r.trace \o b.trace) EXCEPT !.set = r.set]
      ELSE [Outcome(r.db, 0, Some(r.ret), "", r.trace \o b.trace, r.set,
                    IF r.ret THEN "enabled" ELSE "failed")
              EXCEPT !.core = CoreCall("enable", app, draw_view, Some(activity))]

\* The enable, quick and test commands from the backup on.
backup_then_enable(d, app, draw_view, activity, env) ==
  LET b == backup_if_requested(env)
  IN  IF ~b.ok THEN Crash(d, "OSError", b.trace)
      ELSE LET r == enable_handwriting(d, app, draw_view, activity, env.set)
           IN  [Outcome(r.db, 0, Some(r.ret), "", b.trace \o r.trace, r.set,
                        IF r.ret THEN "enabled" ELSE "failed")
                  EXCEPT !.core = CoreCall("enable", app, draw_view, Some(activity))]

\* An outcome with the calls of `before` made first.
After(before, o) == [o EXCEPT !.trace = before \o o.trace]

cmd_enable(d, app, draw_view, activity, env) ==
  IF ~HandlerOpens(env) THEN Crash(d, "FileNotFoundError", <<>>)
  ELSE After(<<"open">>, backup_then_enable(d, app, draw_view, activity, env))

cmd_disable(d, app, activity, env) ==
  IF ~HandlerOpens(env) THEN Crash(d, "FileNotFoundError", <<>>)
  ELSE LET b == backup_if_requested(env)
       IN  IF ~b.ok THEN Crash(d, "OSError", <<"open">> \o b.trace)
           ELSE LET r == disable_handwriting(d, app, activity, env.set)
                IN  [Outcome(r.db, 0, Some(r.ret), "",
                             <<"open">> \o b.trace \o r.trace, r.set,
                             IF r.ret THEN "disabled" ELSE "failed")
                       EXCEPT !.core = CoreCall("disable", app, "", activity)]

cmd_list(d, all, env) ==
  IF ~HandlerOpens(env) THEN Crash(d, "FileNotFoundError", <<>>)
  ELSE IF all
       THEN [Outcome(d, 0, None, "", <<"open", "keys">>, "none", "all")
               EXCEPT !.apps = list_all_apps(d)]
       ELSE [Outcome(d, 0, None, "",
                     <<"open", "keys">> \o [i \in 1..Len(list_all_apps(d)) |-> "get"],
                     "none", "optimized")
               EXCEPT !.optimized = list_optimized_apps(d)]

\* The lines show prints for the activities of activity_map.
show_lines(activity_map) ==
  {[activity |-> a,
    handwriting |-> PassesActiveTest(activity_map[a]),
    draw_view |-> IF PassesActiveTest(activity_map[a])
                  THEN activity_map[a].noteConfig.drawViewKey ELSE ""] :
     a \in DOMAIN activity_map}

cmd_show(d, app, env) ==
  IF ~HandlerOpens(env) THEN Crash(d, "FileNotFoundError", <<>>)
  ELSE LET config == get_app_config(d, app)
       IN  IF config # None /\ DOMAIN config[1] # {}
           THEN LET activity_map == GetDict(config[1], "activityConfigMap")
                IN  IF DOMAIN activity_map # {}
                    THEN [Outcome(d, 0, None, "", <<"open", "get">>, "none", "configs")
                            EXCEPT !.lines = show_lines(activity_map)]
                    ELSE Outcome(d, 0, None, "", <<"open", "get">>, "none", "no_configs")
           ELSE Outcome(d, 0, None, "", <<"open", "get">>, "none", "not_found")

\* The quick command with the backup made before the catalog is consulted.
cmd_quick_backup_first(d, app, activity, env) ==
  IF ~HandlerOpens(env) THEN Crash(d, "FileNotFoundError", <<>>)
  ELSE LET b == backup_if_requested(env)
       IN  IF ~b.ok THEN Crash(d, "OSError", <<"open">> \o b.trace)
           ELSE IF app \notin DOMAIN KNOWN_APPS
           THEN Outcome(d, 1, None, "SystemExit", <<"open">> \o b.trace, "none",
                        "unknown_app")
           ELSE LET app_info == KNOWN_APPS[app]
                    act == IF activity # None /\ activity[1] # ""
                           THEN activity[1] ELSE app_info.commonActivities[1]
                    r == enable_handwriting(d, app, app_info.drawViewKey, act, env.set)
                IN  [Outcome(r.db, 0, Some(r.ret), "",
                             <<"open">> \o b.trace \o r.trace, r.set,
                             IF r.ret THEN "enabled" ELSE "failed")
                       EXCEPT !.core = CoreCall("enable", app, app_info.drawViewKey, Some(act))]

cmd_quick(d, app, activity, env) ==
  IF ~HandlerOpens(env) THEN Crash(d, "FileNotFoundError", <<>>)
  ELSE IF app \notin DOMAIN KNOWN_APPS
       THEN Outcome(d, 1, None, "SystemExit", <<"open">>, "none", "unknown_app")
       ELSE LET app_info == KNOWN_APPS[app]
                act == IF activity # None /\ activity[1] # ""
                       THEN activity[1] ELSE app_info.commonActivities[1]
            IN  After(<<"open">>,
                      backup_then_enable(d, app, app_info.drawViewKey, act, env))

cmd_test(d, app, draw_view, activity, env) ==
  IF ~HandlerOpens(env) THEN Crash(d, "FileNotFoundError", <<>>)
  ELSE LET config == get_app_config(d, app)
       IN  IF config = None \/ DOMAIN config[1] = {}
           THEN Outcome(d, 0, None, "", <<"open", "get">>, "none", "not_found")
           ELSE After(<<"open", "get">>,
                      backup_then_enable(d, app, draw_view, activity, env))

-----------------------------------------------------------------------------
(* Arguments and initial stores *)

A1 == "md.obsidian.MainActivity"

A2 == "x.y.MainActivity"

\* --app: an application of the catalog and one outside it.
AppArgs == {"md.obsidian", "x.y"}

\* --activity where it is required
ActivityArgs == {"", A1, A2}

\* --activity where it is optional
OptionalActivityArgs == {None} \cup {Some(a) : a \in ActivityArgs}

\* --draw-view
DrawViewArgs == {"", "some.View"}

\* Entries an external writer may have left for an activity.
ActiveEntry(a) == create_activity_config("ext.View", a)

InactiveEntry(a) == [create_activity_config("ext.View", a) EXCEPT !.noteConfig.enable = FALSE]

EmptyKeyEntry(a) == create_activity_config("", a)

NoNoteEntry(a) == [clsName |-> a, enable |-> TRUE]

\* Documents an external writer may have left under an application's key:
\* without activityConfigMap, with an empty one, with an active entry among
\* inactive ones, with two active entries, with no entry that passes the test.
NoMap(p) == [pkgName |-> p]

WithMap(p, activity_map) == [pkgName |-> p, activityConfigMap |-> activity_map]

ActiveAndInactive ==
  A1 :> ActiveEntry(A1) @@ A2 :> InactiveEntry(A2) @@ "" :> EmptyKeyEntry("")

TwoActive == A1 :> ActiveEntry(A1) @@ A2 :> ActiveEntry(A2)

NonePasses == A2 :> NoNoteEntry(A2)

\* A key that is not an application record's.
OtherKey == <<"device_", "settings">>

\* The store holding v1 and v2 (None: no such key) for the two applications.
Store(v1, v2) ==
  LET present == {<<"md.obsidian", v1>>, <<"x.y", v2>>}
  IN  [k \in {AppKey(e[1]) : e \in {x \in present : x[2] # None}} \cup {OtherKey} |->
         IF k = OtherKey THEN NotJson
         ELSE IF k = AppKey("md.obsidian") THEN v1[1] ELSE v2[1]]

InitialStores ==
  { Store(Some(JsonText("spaced", NoMap("md.obsidian"))),
          Some(JsonText("spaced", WithMap("x.y", ActiveAndInactive)))),
    Store(Some(JsonText("compact", WithMap("md.obsidian", TwoActive))),
          Some(JsonText("compact", EmptyDict))),
    Store(Some(JsonText("spaced", WithMap("md.obsidian", NonePasses))),
          Some(NotJson)),
    Store(Some(JsonText("compact", WithMap("md.obsidian", EmptyDict))),
          None),
    Store(None,
          Some(JsonText("spaced", NoMap("x.y")))) }

NoCommand ==
  [cmd |-> "none", app |-> "", activity |-> None, draw_view |-> "", all |-> FALSE]

Invocation(cmd, app, activity, draw_view, all) ==
  [cmd |-> cmd, app |-> app, activity |-> activity, draw_view |-> draw_view, all |-> all]

\* The record kept of an invocation: its arguments, the store before it and
\* its outcome.
Record(inv, pre, o) ==
  [cmd |-> inv.cmd, app |-> inv.app, activity |-> inv.activity,
   draw_view |-> inv.draw_view, all |-> inv.all, pre |-> pre,
   exit |-> o.exit, ret |-> o.ret, error |-> o.error, trace |-> o.trace,
   set |-> o.set, core |-> o.core, msg |-> o.msg, lines |-> o.lines,
   apps |-> o.apps, optimized |-> o.optimized]

Init ==
  /\ db \in InitialStores
  /\ db0 = db
  /\ targeted = {}
  /\ last = Record(NoCommand, db, Outcome(db, 0, None, "", <<>>, "none", ""))
  /\ nops = 0

\* One invocation ends with outcome o.
Step(inv, o) ==
  /\ nops < MaxOps
  /\ nops' = nops + 1
  /\ db' = o.db
  /\ last' = Record(inv, db, o)
  /\ targeted' = IF o.core = None THEN targeted ELSE targeted \cup {o.core[1].app}
  /\ UNCHANGED db0

CmdEnable ==
  \E app \in AppArgs, draw_view \in DrawViewArgs, activity \in ActivityArgs, env \in Envs :
    Step(Invocation("enable", app, Some(activity), draw_view, FALSE),
         cmd_enable(db, app, draw_view, activity, env))

CmdDisable ==
  \E app \in AppArgs, activity \in OptionalActivityArgs, env \in Envs :
    Step(Invocation("disable", app, activity, "", FALSE),
         cmd_disable(db, app, activity, env))

CmdList ==
  \E all \in BOOLEAN, env \in Envs :
    Step(Invocation("list", "", None, "", all), cmd_list(db, all, env))

CmdShow ==
  \E app \in AppArgs, env \in Envs :
    Step(Invocation("show", app, None, "", FALSE), cmd_show(db, app, env))

CmdQuick ==
  \E app \in AppArgs, activity \in OptionalActivityArgs, env \in Envs :
    Step(Invocation("quick", app, activity, "", FALSE),
         cmd_quick(db, app, activity, env))

CmdTest ==
  \E app \in AppArgs, draw_view \in DrawViewArgs, activity \in ActivityArgs, env \in Envs :
    Step(Invocation("test", app, Some(activity), draw_view, FALSE),
         cmd_test(db, app, draw_view, activity, env))

Next == CmdEnable \/ CmdDisable \/ CmdList \/ CmdShow \/ CmdQuick \/ CmdTest

Spec == Init /\ [][Next]_vars

-----------------------------------------------------------------------------
(* Vocabulary of the properties *)

\* The activityConfigMap of app's record in store d (empty when there is none).
ActivityMapOf(d, app) ==
  LET config == get_app_config(d, app)
  IN  IF config = None THEN EmptyDict ELSE GetDict(config[1], "activityConfigMap")

\* Invocation record r made the core call op and the store stored its write.
StoredCall(r, op) == r.core # None /\ r.core[1].op = op /\ r.set = "stored"

\* Invocation record r made the core call op.
Called(r, op) == r.core # None /\ r.core[1].op = op

\* An environment without faults.
NoFault == [files |-> "both", copy |-> "ok", set |-> "stored"]

-----------------------------------------------------------------------------
(* C1 *)

C1_Step ==
  (/\ StoredCall(last, "enable") /\ StoredCall(last', "enable")
   /\ last.core[1].app = last'.core[1].app
   /\ last.core[1].activity = last'.core[1].activity)
  => LET app == last'.core[1].app
         act == last'.core[1].activity[1]
         key2 == last'.core[1].draw_view
         before == ActivityMapOf(last.pre, app)
         after == ActivityMapOf(db', app)
     IN  /\ act \in DOMAIN after
         /\ after[act].noteConfig.drawViewKey = key2
         /\ DOMAIN after = DOMAIN before \cup {act}
         /\ \A a \in DOMAIN after \ {act} : after[a] = before[a]

\* C1: when enable(app, key1, act) is followed by enable(app, key2, act) on a
\* record that Locate finds, and the store stores both writes, the map holds
\* one entry for act, its noteConfig.drawViewKey is key2, and the entries of
\* all other activities are exactly those from before the first enable.
C1_EnableOverwrites == [][C1_Step]_vars

\* Two enables of the same activity with different keys have run on a record
\* that had no entry for it and had other entries.
C1_Witness ==
  /\ nops = 2
  /\ StoredCall(last, "enable")
  /\ LET app == last.core[1].app
         act == last.core[1].activity[1]
     IN  /\ act \notin DOMAIN ActivityMapOf(db0, app)
         /\ DOMAIN ActivityMapOf(db0, app) # {}
         /\ act \in DOMAIN ActivityMapOf(last.pre, app)
         /\ ActivityMapOf(last.pre, app)[act].noteConfig.drawViewKey # last.core[1].draw_view
         /\ ActivityMapOf(db, app)[act].noteConfig.drawViewKey = last.core[1].draw_view

-----------------------------------------------------------------------------
(* C2 *)

\* C2: whenever enable_handwriting or disable_handwriting returns failure,
\* every key of the store holds the value it held before the operation.
C2_FailureLeavesStore ==
  (last.core # None /\ last.ret = Some(FALSE)) => db = last.pre

\* A scoped disable failed on a missing activity after an earlier operation
\* changed the store.
C2_Witness ==
  /\ nops = 2
  /\ db # db0
  /\ Called(last, "disable")
  /\ last.ret = Some(FALSE)
  /\ last.set = "none"
  /\ DOMAIN ActivityMapOf(db, last.core[1].app) # {}

-----------------------------------------------------------------------------
(* C3 *)

\* C3: disable without an activity, on a record with a non-empty map and with
\* the write stored, removes the entries that pass the active test and no
\* other: the entries that fail it stay as they were and none that passes it
\* is left.
C3_DisableAllRemovesActive ==
  (StoredCall(last, "disable") /\ last.core[1].activity = None)
  => LET app == last.core[1].app
         before == ActivityMapOf(last.pre, app)
         after == ActivityMapOf(db, app)
     IN  /\ DOMAIN before # {}
         /\ DOMAIN after = {a \in DOMAIN before : ~PassesActiveTest(before[a])}
         /\ \A a \in DOMAIN after : after[a] = before[a]
         /\ \A a \in DOMAIN after : ~PassesActiveTest(after[a])

\* A disable without an activity removed an active entry and kept an entry
\* with enable false and an entry with an empty drawViewKey.
C3_Witness ==
  /\ StoredCall(last, "disable") /\ last.core[1].activity = None
  /\ LET app == last.core[1].app
         before == ActivityMapOf(last.pre, app)
         after == ActivityMapOf(db, app)
     IN  /\ \E a \in DOMAIN before \ DOMAIN after : PassesActiveTest(before[a])
         /\ \E a \in DOMAIN after :
              /\ "noteConfig" \in DOMAIN after[a]
              /\ after[a].noteConfig.enable = FALSE
         /\ \E a \in DOMAIN after :
              /\ "noteConfig" \in DOMAIN after[a]
              /\ after[a].noteConfig.enable = TRUE
              /\ after[a].noteConfig.drawViewKey = ""

-----------------------------------------------------------------------------
(* C4 *)

\* C4: disable with an activity identifier given, whatever string it is,
\* removes at most the entry keyed by it: every other activity has an entry
\* afterwards exactly when it had one before, with the same value.
C4_ScopedDisableFrame ==
  (Called(last, "disable") /\ last.core[1].activity # None)
  => LET app == last.core[1].app
         act == last.core[1].activity[1]
         before == ActivityMapOf(last.pre, app)
         after == ActivityMapOf(db, app)
     IN  \A a \in (DOMAIN before \cup DOMAIN after) \ {act} :
           /\ a \in DOMAIN before
           /\ a \in DOMAIN after
           /\ after[a] = before[a]

-----------------------------------------------------------------------------
(* C5 *)

\* C5: on a record without activityConfigMap, whatever its other fields and
\* also when it has none, enable with a non-empty key succeeds (the store not
\* rejecting the write) and show then reports exactly one entry, the one for
\* the activity, as handwriting-enabled with that key.
C5_EnableOnRecordWithoutMap ==
  (/\ Called(last, "enable")
   /\ last.core[1].draw_view # ""
   /\ last.set \notin {"refused", "raised"}
   /\ get_app_config(last.pre, last.core[1].app) # None
   /\ "activityConfigMap" \notin DOMAIN get_app_config(last.pre, last.core[1].app)[1])
  => /\ last.ret = Some(TRUE)
     /\ cmd_show(db, last.core[1].app, NoFault).lines =
          {[activity |-> last.core[1].activity[1],
            handwriting |-> TRUE,
            draw_view |-> last.core[1].draw_view]}

-----------------------------------------------------------------------------
(* C6 *)

\* The fields of a record other than activityConfigMap.
OtherFields(doc) == [f \in DOMAIN doc \ {"activityConfigMap"} |-> doc[f]]

\* C6: after any sequence of invocations the store has the keys it started
\* with, every value other than the record of an application passed to
\* enable_handwriting or disable_handwriting is the initial string, and such
\* a record parses as it did initially with every field other than
\* activityConfigMap at its initial value.
C6_OnlyActivityMapChanges ==
  /\ DOMAIN db = DOMAIN db0
  /\ \A k \in DOMAIN db :
       IF k[1] = "eac_app_" /\ k[2] \in targeted
       THEN /\ json_loads(db[k]).ok = json_loads(db0[k]).ok
            /\ IF json_loads(db[k]).ok
               THEN OtherFields(json_loads(db[k]).value) =
                      OtherFields(json_loads(db0[k]).value)
               ELSE db[k] = db0[k]
       ELSE db[k] = db0[k]

\* Two invocations have changed the activity map of a record that has another
\* field, the second through quick, and another application's record exists.
C6_Witness ==
  /\ nops = 2
  /\ last.cmd = "quick"
  /\ db # last.pre
  /\ last.pre # db0
  /\ targeted = {"md.obsidian"}
  /\ AppKey("x.y") \in DOMAIN db
  /\ "pkgName" \in DOMAIN get_app_config(db, "md.obsidian")[1]
  /\ ActivityMapOf(db, "md.obsidian") # ActivityMapOf(db0, "md.obsidian")

-----------------------------------------------------------------------------
(* C7 *)

\* The commands that call enable_handwriting or disable_handwriting.
MutatingCommands == {"enable", "disable", "quick", "test"}

\* C7: in enable, disable, quick and test with the backup requested, both
\* copies of backup_database precede the core operation's read of the record
\* and its write; when a copy fails the command writes nothing.
C7_BackupBeforeCore ==
  (last.cmd \in MutatingCommands /\ args_backup)
  => /\ \A i \in DOMAIN last.trace :
          last.trace[i] \in {"locate", "persist"}
          => \E j, k \in 1..(i - 1) :
               j < k /\ last.trace[j] = "copy_db" /\ last.trace[k] = "copy_crc"
     /\ last.error = "OSError"
          => /\ \A i \in DOMAIN last.trace : last.trace[i] # "persist"
             /\ db = last.pre

\* A test command backed both files up after its own look at the record and
\* before enable_handwriting read and wrote it.
C7_Witness ==
  /\ last.cmd = "test"
  /\ last.trace = <<"open", "get", "copy_db", "copy_crc", "locate", "persist">>
  /\ db # last.pre

-----------------------------------------------------------------------------
(* C8 *)

\* The core operation of an invocation failed: the handler could not be
\* built, the backup or the catalog lookup failed, the record was not found,
\* or enable_handwriting / disable_handwriting returned False.
CoreFailed(r) == r.error # "" \/ r.ret = Some(FALSE) \/ r.msg = "not_found"

\* C8: enable, disable, show, quick and test end with a non-zero exit status
\* exactly when their core operation failed.
C8_ExitStatus ==
  last.cmd \in {"enable", "disable", "show", "quick", "test"}
  => (CoreFailed(last) <=> last.exit # 0)

-----------------------------------------------------------------------------
(* C9 *)

\* C9: whenever the store rejects the write, by returning False or by
\* raising, enable_handwriting and disable_handwriting return failure.
C9_RejectedWriteFails ==
  (last.core # None /\ last.set \in {"refused", "raised"})
  => last.ret = Some(FALSE)

-----------------------------------------------------------------------------
(* C10 *)

\* C10 as stated: quick on an application outside the catalog ends with
\* UnknownApp without the store being opened, whatever the store files are.
C10_NoStoreAccess ==
  (last.cmd = "quick" /\ last.app \notin DOMAIN KNOWN_APPS)
  => last.trace = <<>> /\ last.error = "SystemExit"

\* C10 amended: quick on an application outside the catalog never reads a
\* record, makes no backup and calls no core operation, leaves the store as
\* it was and exits with status 1; the handler is built first, so with both
\* store files present the store is opened and the run ends with UnknownApp,
\* and with one missing it ends with the handler's FileNotFoundError.
C10_UnknownAppQuick ==
  (last.cmd = "quick" /\ last.app \notin DOMAIN KNOWN_APPS)
  => /\ last.exit = 1
     /\ last.core = None
     /\ db = last.pre
     /\ \/ last.trace = <<"open">> /\ last.error = "SystemExit"
        \/ last.trace = <<>> /\ last.error = "FileNotFoundError"

\* A quick command on an application outside the catalog opened the store
\* and ended with UnknownApp.
C10_Witness ==
  /\ last.cmd = "quick"
  /\ last.app = "x.y"
  /\ last.trace = <<"open">>
  /\ last.msg = "unknown_app"
  /\ last.exit = 1

-----------------------------------------------------------------------------
(* C11 *)

\* C11: whenever enable_handwriting or disable_handwriting has written back
\* a record that parses to the same document as the value stored before, in
\* particular after disable without an activity on a non-empty map in which
\* no entry passes the active test, the stored value is the same string as
\* before, however the earlier writer laid it out.
C11_ReencodeByteIdentical ==
  StoredCall(last, last.core[1].op)
  => LET app == last.core[1].app
     IN  (/\ get_app_config(last.pre, app) # None
          /\ get_app_config(db, app) = get_app_config(last.pre, app))
         => db[AppKey(app)] = last.pre[AppKey(app)]

-----------------------------------------------------------------------------
(* C12 *)

\* Lexicographic order on the application identifiers of AppArgs.
LexBefore(a, b) == a = "md.obsidian" /\ b = "x.y"

\* The entries of app's map in store d that pass the active test, each with
\* its drawViewKey.
PassingEntries(d, app) ==
  LET activity_map == ActivityMapOf(d, app)
  IN  {[activity |-> a, drawViewKey |-> activity_map[a].noteConfig.drawViewKey] :
         a \in {n \in DOMAIN activity_map :
                  /\ "noteConfig" \in DOMAIN activity_map[n]
                  /\ activity_map[n].noteConfig.enable = TRUE
                  /\ activity_map[n].noteConfig.drawViewKey # ""}}

\* C12: in every store reached by the commands, the listing of list
\* without --all holds exactly the applications with at least one entry passing
\* the active test, each once and paired with exactly its passing entries
\* and their drawViewKey, in lexicographic order of the identifiers; an
\* application with no passing entry or with no record that parses is not
\* in it.  A list without --all that ran printed that listing.
C12_ListOptimizedExact ==
  LET listing == cmd_list(db, FALSE, NoFault).optimized
  IN  /\ {listing[i][1] : i \in 1..Len(listing)} =
           {app \in AppArgs : PassingEntries(db, app) # {}}
      /\ \A i \in 1..Len(listing) : listing[i][2] = PassingEntries(db, listing[i][1])
      /\ \A i, j \in 1..Len(listing) : i < j => LexBefore(listing[i][1], listing[j][1])
      /\ (last.cmd = "list" /\ ~last.all /\ last.error = "") => last.optimized = listing

\* After a stored enable on an application that was not listed, list
\* without --all has printed both applications, the second without its entries
\* that fail the active test.
C12_Witness ==
  /\ nops = 2
  /\ last.cmd = "list" /\ ~last.all /\ last.error = ""
  /\ Len(cmd_list(db0, FALSE, NoFault).optimized) = 1
  /\ Len(last.optimized) = 2
  /\ last.optimized[1][1] = "md.obsidian"
  /\ last.optimized[2][1] = "x.y"
  /\ \E a \in DOMAIN ActivityMapOf(db, "x.y") :
       \A e \in last.optimized[2][2] : e.activity # a

-----------------------------------------------------------------------------
(* C13 *)

\* The positions of event e in trace t.
Positions(t, e) == {i \in 1..Len(t) : t[i] = e}

\* C13: a disable attempts a write exactly when the record parses, its
\* activityConfigMap is non-empty, and the activity is omitted or is a key of
\* the map.  With the map absent or empty it returns success without a
\* write; with the named activity absent it returns failure without a write.
\* There is at most one write per operation and it comes after the read of
\* the record.
C13_DisableWritesExactlyWhen ==
  Called(last, "disable")
  => LET app == last.core[1].app
         act == last.core[1].activity
         located == get_app_config(last.pre, app) # None
         activity_map == ActivityMapOf(last.pre, app)
         writes == Positions(last.trace, "persist")
     IN  /\ Cardinality(writes) <= 1
         /\ \A w \in writes : \E l \in Positions(last.trace, "locate") : l < w
         /\ (writes # {}) <=>
              (/\ located
               /\ DOMAIN activity_map # {}
               /\ (act = None \/ act[1] \in DOMAIN activity_map))
         /\ (located /\ DOMAIN activity_map = {})
              => (last.ret = Some(TRUE) /\ writes = {})
         /\ (located /\ DOMAIN activity_map # {} /\ act # None
                     /\ act[1] \notin DOMAIN activity_map)
              => (last.ret = Some(FALSE) /\ writes = {})

-----------------------------------------------------------------------------
(* C14 *)

\* Invocation record r made the core call op, which returned success, and
\* the store refused no write of it.
Succeeded(r, op) == Called(r, op) /\ r.ret = Some(TRUE) /\ r.set \in {"stored", "none"}

\* A successful enable is followed by a successful disable of the same
\* application and activity, the record having had no entry for the activity
\* before the enable.
EnableThenDisable ==
  /\ Succeeded(last, "enable")
  /\ Succeeded(last', "disable")
  /\ last'.core[1].app = last.core[1].app
  /\ last'.core[1].activity = last.core[1].activity
  /\ get_app_config(last.pre, last.core[1].app) # None
  /\ last.core[1].activity[1] \notin DOMAIN ActivityMapOf(last.pre, last.core[1].app)

C14_Step ==
  EnableThenDisable
  => LET app == last.core[1].app
         original == get_app_config(last.pre, app)[1]
         restored == get_app_config(db', app)
     IN  /\ restored # None
         /\ ActivityMapOf(db', app) = ActivityMapOf(last.pre, app)
         /\ IF "activityConfigMap" \in DOMAIN original
            THEN restored[1] = original
            ELSE restored[1] = Put(original, "activityConfigMap", EmptyDict)

\* C14: when a successful enable(app, key, act) on a record without an entry
\* for act is followed by a successful disable(app, act), every entry of
\* activityConfigMap is as before the enable; the record equals the record
\* before the enable when it had an activityConfigMap, and otherwise differs
\* from it only by an added empty activityConfigMap.
C14_EnableDisableRestores == [][C14_Step]_vars

-----------------------------------------------------------------------------
(* C15 *)

\* C15: after a successful enable(app, key, act) the record has an entry for
\* act whose noteConfig.enable is true and whose drawViewKey is key, so that
\* it passes the active test exactly when key is not the empty string.  An
\* enable with the empty key on a record that enable finds, the store not
\* rejecting the write, reports success; show then reports the entry as not
\* handwriting-enabled, list without --all gives no pair for it, and a disable
\* without an activity leaves it as it is.
C15_EmptyKeyEntryInactive ==
  /\ Succeeded(last, "enable")
     => LET app == last.core[1].app
            act == last.core[1].activity[1]
            key == last.core[1].draw_view
            activity_map == ActivityMapOf(db, app)
        IN  /\ act \in DOMAIN activity_map
            /\ activity_map[act].noteConfig.enable = TRUE
            /\ activity_map[act].noteConfig.drawViewKey = key
            /\ PassesActiveTest(activity_map[act]) <=> key # ""
            /\ key = "" =>
                 /\ [activity |-> act, handwriting |-> FALSE, draw_view |-> ""]
                      \in cmd_show(db, app, NoFault).lines
                 /\ \A e \in PassingEntries(db, app) : e.activity # act
                 /\ LET listing == cmd_list(db, FALSE, NoFault).optimized
                    IN  \A i \in 1..Len(listing) :
                          listing[i][1] = app
                          => \A e \in listing[i][2] : e.activity # act
                 /\ LET after == ActivityMapOf(cmd_disable(db, app, None, NoFault).db, app)
                    IN  act \in DOMAIN after /\ after[act] = activity_map[act]
  /\ (/\ Called(last, "enable")
      /\ last.core[1].draw_view = ""
      /\ get_app_config(last.pre, last.core[1].app) \notin {None, Some(EmptyDict)}
      /\ last.set \notin {"refused", "raised"})
     => Succeeded(last, "enable")

\* An enable with the empty key succeeded on a record with an entry that
\* passes the active test: the application is listed without the new entry,
\* and a disable without an activity would remove the other entry only.
C15_Witness ==
  /\ Succeeded(last, "enable")
  /\ last.core[1].draw_view = ""
  /\ last.core[1].activity[1] \notin DOMAIN ActivityMapOf(last.pre, last.core[1].app)
  /\ PassingEntries(db, last.core[1].app) # {}
  /\ Len(cmd_list(db, FALSE, NoFault).optimized) >= 1
  /\ DOMAIN ActivityMapOf(cmd_disable(db, last.core[1].app, None, NoFault).db,
                          last.core[1].app)
       # DOMAIN ActivityMapOf(db, last.core[1].app)

====
